---- MODULE Spec2Model ----
(***************************************************************************)
(* Model of the streaming generation hook (useStreamingGeneration): the    *)
(* StreamingState it owns, the two asynchronous generate functions with    *)
(* their fetch / reader.read() suspension points, cancelGeneration and     *)
(* resetState, driven by an arbitrary server and an arbitrary caller.      *)
(***************************************************************************)
EXTENDS Integers, Sequences, FiniteSets, TLC

\* ---------------------------------------------------------------- bounds
\* number of generate invocations that can be in flight at the same time
MaxInFlight == 2
\* longest unterminated line (in characters) the server leaves in a stream
MaxBuffer == 4

Calls == 1..MaxInFlight

\* ------------------------------------------------------ JavaScript values
\* `undefined` where a string is expected / where a number is expected
UndefStr == "<undefined>"
UndefNum == 0 - 1

\* JavaScript `x || d` on numbers and on strings (0, '' and undefined are falsy)
OrNum(x, d) == IF x = UndefNum \/ x = 0 THEN d ELSE x
OrStr(x, d) == IF x = UndefStr \/ x = "" THEN d ELSE x

\* `null` in a JSON body where a string / a number is expected
NullStr == "<null>"
NullNum == 0 - 2

\* ------------------------------------------------------ request bodies
\* Numbers with a fraction are kept in fixed point: guidance_scale in tenths
\* (1.0 is 10, 7.5 is 75) and strength in hundredths (0.75 is 75).
\* JSON.stringify drops a key whose value is undefined; none of the keys
\* below can be undefined except prompt and image_data, which are kept as
\* they are given.

\* requestBody of generateImageStream
generateImageStream_requestBody(request) ==
  [prompt |-> request.prompt,
   negative_prompt |-> OrStr(request.negative_prompt, NullStr),
   width |-> OrNum(request.width, 512),
   height |-> OrNum(request.height, 512),
   num_inference_steps |-> OrNum(request.num_inference_steps, 6),
   guidance_scale |-> OrNum(request.guidance_scale, 10),
   model_name |-> OrStr(request.model_name, "sdxl-turbo"),
   sampler |-> OrStr(request.sampler, "lcm")]

\* the body object of generateImageToImageStream
generateImageToImageStream_requestBody(request) ==
  [prompt |-> request.prompt,
   image_data |-> request.image_data,
   negative_prompt |-> OrStr(request.negative_prompt, NullStr),
   strength |-> OrNum(request.strength, 75),
   num_inference_steps |-> OrNum(request.num_inference_steps, 20),
   guidance_scale |-> OrNum(request.guidance_scale, 75),
   model_name |-> OrStr(request.model_name, "sdxl-base-1.0"),
   sampler |-> OrStr(request.sampler, "euler_a")]

\* ------------------------------------------------------ StreamingState
\* error: UndefStr when unset; result: <<>> when unset, <<r>> when set
NoResult == <<>>

InitialState ==
  [isGenerating |-> FALSE, progress |-> 0, stage |-> "", currentStep |-> 0,
   totalSteps |-> 0, error |-> UndefStr, result |-> NoResult]

StepsDefaultT2I == 6
StepsDefaultI2I == 20

\* the start updater of generateImageStream ignoring the request's step count
generateImageStream_start_fixed(request) ==
  [isGenerating |-> TRUE, progress |-> 0, stage |-> "Initializing",
   currentStep |-> 0, totalSteps |-> StepsDefaultT2I,
   error |-> UndefStr, result |-> NoResult]

\* setState at the top of generateImageStream
generateImageStream_start(request) ==
  [isGenerating |-> TRUE, progress |-> 0, stage |-> "Initializing",
   currentStep |-> 0,
   totalSteps |-> OrNum(request.num_inference_steps, StepsDefaultT2I),
   error |-> UndefStr, result |-> NoResult]

\* setState at the top of generateImageToImageStream
generateImageToImageStream_start(request) ==
  [isGenerating |-> TRUE, progress |-> 0, stage |-> "Initializing img2img",
   currentStep |-> 0,
   totalSteps |-> OrNum(request.num_inference_steps, StepsDefaultI2I),
   error |-> UndefStr, result |-> NoResult]

\* the three updaters of generateImageStream
generateImageStream_progress(prev, data) ==
  [prev EXCEPT !.progress = data.progress, !.stage = data.stage,
               !.currentStep = data.step, !.totalSteps = data.total_steps]

generateImageStream_complete(prev, data) ==
  [prev EXCEPT !.isGenerating = FALSE, !.progress = 100,
               !.stage = "Completed",
               !.currentStep = data.step, !.totalSteps = data.total_steps,
               !.result = << [image_url |-> data.image_url,
                              filename |-> data.filename,
                              generation_time |-> data.generation_time] >>]

\* the error updater of generateImageStream clearing the progress as well
generateImageStream_error_resets(prev, data) ==
  [prev EXCEPT !.isGenerating = FALSE, !.error = data.message,
               !.progress = 0, !.stage = ""]

generateImageStream_error(prev, data) ==
  [prev EXCEPT !.isGenerating = FALSE, !.error = data.message]

\* the three updaters of generateImageToImageStream
generateImageToImageStream_progress(prev, parsed) ==
  [prev EXCEPT !.progress = OrNum(parsed.progress, 0),
               !.stage = OrStr(parsed.stage, prev.stage),
               !.currentStep = OrNum(parsed.step, 0),
               !.totalSteps = OrNum(parsed.total_steps, prev.totalSteps)]

\* the complete updater of generateImageToImageStream keeping the progress
generateImageToImageStream_complete_keeps(prev, parsed) ==
  [prev EXCEPT !.isGenerating = FALSE,
               !.stage = "Completed",
               !.result = << [image_url |-> parsed.image_url,
                              filename |-> parsed.filename,
                              generation_time |-> parsed.generation_time] >>]

generateImageToImageStream_complete(prev, parsed) ==
  [prev EXCEPT !.isGenerating = FALSE, !.progress = 100,
               !.stage = "Completed",
               !.result = << [image_url |-> parsed.image_url,
                              filename |-> parsed.filename,
                              generation_time |-> parsed.generation_time] >>]

generateImageToImageStream_error(prev, parsed) ==
  [prev EXCEPT !.isGenerating = FALSE,
               !.error = OrStr(parsed.message, "Unknown error occurred")]

\* the updater of both catch blocks; msg is already the chosen message
catchUpdate(prev, msg) ==
  [prev EXCEPT !.isGenerating = FALSE, !.error = msg]

\* cancelGeneration clearing the progress as well
cancelUpdate_resets(prev) ==
  [prev EXCEPT !.isGenerating = FALSE, !.error = "Generation cancelled",
               !.progress = 0]

\* the updater of cancelGeneration
cancelUpdate(prev) ==
  [prev EXCEPT !.isGenerating = FALSE, !.error = "Generation cancelled"]

\* ------------------------------------------------------ thrown values
\* what a catch block can receive: an Error with a message, or a non-Error
NonError == "<non-Error value>"
HttpError == "HTTP error! status: 500"
NoReaderT2I == "Failed to get response stream reader"
NoReaderI2I == "No response body available for streaming"
NetworkErrors == {"Failed to fetch", NonError}

\* error instanceof Error ? error.message : <fallback>
CatchMessage(kind, thrown) ==
  IF thrown # NonError THEN thrown
  ELSE IF kind = "t2i" THEN "Failed to generate image"
       ELSE "Unknown error occurred"

\* ------------------------------------------------------ wire events
Event(t, p, s, st, tot, url, fn, gt, msg) ==
  [type |-> t, progress |-> p, stage |-> s, step |-> st, total_steps |-> tot,
   image_url |-> url, filename |-> fn, generation_time |-> gt,
   message |-> msg]

\* the JSON documents the modelled server can put after `data: `, by name
EventIds == {"P50", "C1", "C2", "E1", "ping",
             "P0", "P100", "P150", "Px", "Cx", "Ex"}

JSONValue(id) ==
  CASE id = "P50"  -> Event("progress", 50, "Generating", 3, 6,
                            UndefStr, UndefStr, UndefNum, UndefStr)
    [] id = "C1"   -> Event("complete", 100, UndefStr, 6, 6,
                            "/images/x.png", "x.png", 32, UndefStr)
    [] id = "C2"   -> Event("complete", 100, UndefStr, 6, 6,
                            "/images/y.png", "y.png", 47, UndefStr)
    [] id = "E1"   -> Event("error", UndefNum, UndefStr, UndefNum, UndefNum,
                            UndefStr, UndefStr, UndefNum, "boom")
    [] id = "ping" -> Event("ping", UndefNum, UndefStr, UndefNum, UndefNum,
                            UndefStr, UndefStr, UndefNum, UndefStr)
    [] id = "P0"   -> Event("progress", 0, "Loading", 0, 6,
                            UndefStr, UndefStr, UndefNum, UndefStr)
    [] id = "P100" -> Event("progress", 100, "Finalizing", 6, 6,
                            UndefStr, UndefStr, UndefNum, UndefStr)
    [] id = "P150" -> Event("progress", 150, "", 0, 0,
                            UndefStr, UndefStr, UndefNum, UndefStr)
    [] id = "Px"   -> Event("progress", UndefNum, UndefStr, UndefNum,
                            UndefNum, UndefStr, UndefStr, UndefNum, UndefStr)
    [] id = "Cx"   -> Event("complete", UndefNum, UndefStr, UndefNum,
                            UndefNum, UndefStr, UndefStr, UndefNum, UndefStr)
    [] id = "Ex"   -> Event("error", UndefNum, UndefStr, UndefNum, UndefNum,
                            UndefStr, UndefStr, UndefNum, UndefStr)

\* a progress event whose stage is the two-byte character e-acute; after
\* decoding: the stage text is whatever the decoder produced
StageOf(chars) ==
  CASE chars = <<"e-acute">> -> "e-acute"
    [] chars = <<"U+FFFD">> -> "U+FFFD"
    [] chars = <<"U+FFFD", "U+FFFD">> -> "U+FFFD U+FFFD"
    [] OTHER -> UndefStr

\* JSON.parse of a payload (a sequence of characters): ok = FALSE is a throw
JSONparse(payload) ==
  IF Len(payload) = 3 /\ payload[1] = "{" /\ payload[3] = "}"
     /\ payload[2] \in EventIds
  THEN [ok |-> TRUE, value |-> JSONValue(payload[2])]
  ELSE IF Len(payload) >= 4 /\ payload[1] = "{" /\ payload[2] = "Ps"
          /\ payload[Len(payload)] = "}"
          /\ StageOf(SubSeq(payload, 3, Len(payload) - 1)) # UndefStr
  THEN [ok |-> TRUE,
        value |-> Event("progress", 50,
                        StageOf(SubSeq(payload, 3, Len(payload) - 1)), 3, 6,
                        UndefStr, UndefStr, UndefNum, UndefStr)]
  ELSE [ok |-> FALSE, value |-> JSONValue("ping")]

\* ------------------------------------------------------ text handling
\* TextDecoder.decode over the bytes c3 a9 (one character) and ASCII units.
\* stream = FALSE: decode(value); stream = TRUE: decode(value, {stream: true})
RECURSIVE decodeFrom(_, _, _)
decodeFrom(bytes, i, stream) ==
  IF i > Len(bytes) THEN [text |-> <<>>, pending |-> <<>>]
  ELSE IF bytes[i] = "c3" THEN
         IF i = Len(bytes) THEN
           IF stream THEN [text |-> <<>>, pending |-> <<"c3">>]
           ELSE [text |-> <<"U+FFFD">>, pending |-> <<>>]
         ELSE IF bytes[i + 1] = "a9" THEN
           LET r == decodeFrom(bytes, i + 2, stream)
           IN  [text |-> <<"e-acute">> \o r.text, pending |-> r.pending]
         ELSE
           LET r == decodeFrom(bytes, i + 1, stream)
           IN  [text |-> <<"U+FFFD">> \o r.text, pending |-> r.pending]
  ELSE IF bytes[i] = "a9" THEN
         LET r == decodeFrom(bytes, i + 1, stream)
         IN  [text |-> <<"U+FFFD">> \o r.text, pending |-> r.pending]
  ELSE LET r == decodeFrom(bytes, i + 1, stream)
       IN  [text |-> <<bytes[i]>> \o r.text, pending |-> r.pending]

decode(pending, value, stream) == decodeFrom(pending \o value, 1, stream)

\* String.prototype.split('\n'): always at least one (possibly empty) piece
RECURSIVE split(_)
split(text) ==
  IF \A i \in 1..Len(text) : text[i] # "\n" THEN << text >>
  ELSE LET k == CHOOSE i \in 1..Len(text) :
                  text[i] = "\n" /\ \A j \in 1..(i - 1) : text[j] # "\n"
       IN  << SubSeq(text, 1, k - 1) >> \o split(SubSeq(text, k + 1, Len(text)))

\* line.startsWith('data: ')
startsWithData(line) == Len(line) >= 1 /\ line[1] = "data: "

\* data.trim() === ''
trimIsEmpty(data) == \A i \in 1..Len(data) : data[i] = " "

\* ------------------------------------------------------ the line loops
\* what one pass over the lines of a chunk has done so far
\*   st       the StreamingState after the updaters applied so far
\*   stop     "no" | "return" (generateImageStream) | "break" (img2img)
\*   applied  the types of the events whose updater ran, in order
\*   bad      data lines whose JSON.parse threw (caught and logged)
\*   ignored  lines without the prefix, and img2img's empty payloads
\*   term     a complete/error event of this stream has been applied
\*   late     an event applied after such an event changed the state
LoopStart(st, term) ==
  [st |-> st, stop |-> "no", applied |-> <<>>, bad |-> 0, ignored |-> 0,
   term |-> term, late |-> FALSE]

Applied(acc, type, st2, stop) ==
  [acc EXCEPT !.st = st2, !.stop = stop,
              !.applied = Append(acc.applied, type),
              !.term = acc.term \/ type \in {"complete", "error"},
              !.late = acc.late \/ (acc.term /\ st2 # acc.st)]

\* generateImageStream without the inner try/catch: a payload that does not
\* parse reaches the outer catch and ends the generation
generateImageStream_line_nocatch(acc, line) ==
  IF ~startsWithData(line) THEN [acc EXCEPT !.ignored = acc.ignored + 1]
  ELSE LET r == JSONparse(Tail(line))
           data == r.value
       IN  IF ~r.ok
             THEN Applied(acc, "error",
                          catchUpdate(acc.st, "Unexpected token"), "return")
           ELSE IF data.type = "progress"
             THEN Applied(acc, "progress",
                          generateImageStream_progress(acc.st, data), "no")
           ELSE IF data.type = "complete"
             THEN Applied(acc, "complete",
                          generateImageStream_complete(acc.st, data), "return")
           ELSE IF data.type = "error"
             THEN Applied(acc, "error",
                          generateImageStream_error(acc.st, data), "return")
           ELSE acc

\* body of `for (const line of lines)` in generateImageStream
generateImageStream_line(acc, line) ==
  IF ~startsWithData(line) THEN [acc EXCEPT !.ignored = acc.ignored + 1]
  ELSE LET r == JSONparse(Tail(line))
           data == r.value
       IN  IF ~r.ok THEN [acc EXCEPT !.bad = acc.bad + 1]
           ELSE IF data.type = "progress"
             THEN Applied(acc, "progress",
                          generateImageStream_progress(acc.st, data), "no")
           ELSE IF data.type = "complete"
             THEN Applied(acc, "complete",
                          generateImageStream_complete(acc.st, data), "return")
           ELSE IF data.type = "error"
             THEN Applied(acc, "error",
                          generateImageStream_error(acc.st, data), "return")
           ELSE acc

\* generateImageToImageStream rejecting a line without the `data: ` prefix:
\* the line ends the generation with an error
generateImageToImageStream_line_strict(acc, line) ==
  IF ~startsWithData(line)
    THEN Applied(acc, "error", catchUpdate(acc.st, "Unexpected line"),
                 "return")
  ELSE LET data == Tail(line)
           r == JSONparse(data)
           parsed == r.value
       IN  IF trimIsEmpty(data) THEN [acc EXCEPT !.ignored = acc.ignored + 1]
           ELSE IF ~r.ok THEN [acc EXCEPT !.bad = acc.bad + 1]
           ELSE IF parsed.type = "progress"
             THEN Applied(acc, "progress",
                          generateImageToImageStream_progress(acc.st, parsed),
                          "no")
           ELSE IF parsed.type = "complete"
             THEN Applied(acc, "complete",
                          generateImageToImageStream_complete(acc.st, parsed),
                          "break")
           ELSE IF parsed.type = "error"
             THEN Applied(acc, "error",
                          generateImageToImageStream_error(acc.st, parsed),
                          "break")
           ELSE acc

\* body of `for (const line of lines)` in generateImageToImageStream
generateImageToImageStream_line(acc, line) ==
  IF ~startsWithData(line) THEN [acc EXCEPT !.ignored = acc.ignored + 1]
  ELSE LET data == Tail(line)
           r == JSONparse(data)
           parsed == r.value
       IN  IF trimIsEmpty(data) THEN [acc EXCEPT !.ignored = acc.ignored + 1]
           ELSE IF ~r.ok THEN [acc EXCEPT !.bad = acc.bad + 1]
           ELSE IF parsed.type = "progress"
             THEN Applied(acc, "progress",
                          generateImageToImageStream_progress(acc.st, parsed),
                          "no")
           ELSE IF parsed.type = "complete"
             THEN Applied(acc, "complete",
                          generateImageToImageStream_complete(acc.st, parsed),
                          "break")
           ELSE IF parsed.type = "error"
             THEN Applied(acc, "error",
                          generateImageToImageStream_error(acc.st, parsed),
                          "break")
           ELSE acc

\* the for loop: lines in order until a return / break
RECURSIVE forLines(_, _, _, _)
forLines(kind, lines, i, acc) ==
  IF i > Len(lines) \/ acc.stop # "no" THEN acc
  ELSE forLines(kind, lines, i + 1,
                IF kind = "t2i" THEN generateImageStream_line(acc, lines[i])
                ELSE generateImageToImageStream_line(acc, lines[i]))

\* generateImageStream, one iteration of while(true) with done = false:
\* decode(value), split, loop.  Nothing is carried to the next iteration.
generateImageStream_chunk(st, term, value) ==
  LET chunk == decode(<<>>, value, FALSE).text
      lines == split(chunk)
  IN  [acc |-> forLines("t2i", lines, 1, LoopStart(st, term)),
       buffer |-> <<>>, pending |-> <<>>]

\* generateImageToImageStream, one iteration with done = false:
\* buffer += decode(value, {stream: true}); lines = buffer.split('\n');
\* buffer = lines.pop() || ''; loop.
generateImageToImageStream_chunk(st, term, buffer, pending, value) ==
  LET d == decode(pending, value, TRUE)
      all == split(buffer \o d.text)
      lines == SubSeq(all, 1, Len(all) - 1)
  IN  [acc |-> forLines("i2i", lines, 1, LoopStart(st, term)),
       buffer |-> all[Len(all)], pending |-> d.pending]

\* ------------------------------------------------------ inputs
\* String.prototype.trim on the prompts of the model
RECURSIVE trim(_)
trim(s) ==
  IF s = <<>> THEN s
  ELSE IF Head(s) = " " THEN trim(Tail(s))
  ELSE IF s[Len(s)] = " " THEN trim(SubSeq(s, 1, Len(s) - 1))
  ELSE s

Prompts == { <<>>, <<" ">>, <<"a", " ", "c", "a", "t">> }

\* a request object with every optional property absent
BareRequest ==
  [prompt |-> <<"a", " ", "c", "a", "t">>, negative_prompt |-> UndefStr,
   width |-> UndefNum, height |-> UndefNum,
   num_inference_steps |-> UndefNum, guidance_scale |-> UndefNum,
   seed |-> UndefNum, model_name |-> UndefStr, sampler |-> UndefStr,
   image_data |-> UndefStr, strength |-> UndefNum]

\* a request object with every property supplied
FullRequest ==
  [prompt |-> <<"a", " ", "c", "a", "t">>, negative_prompt |-> "blurry",
   width |-> 768, height |-> 640,
   num_inference_steps |-> 4, guidance_scale |-> 35,
   seed |-> 42, model_name |-> "sdxl-base-1.0", sampler |-> "euler_a",
   image_data |-> "data:image/png;base64,AAAA", strength |-> 50]

Requests ==
  { [BareRequest EXCEPT !.prompt = p] : p \in Prompts }
  \cup { [BareRequest EXCEPT !.num_inference_steps = 4] }

\* the properties of a request object
RequestKeys == DOMAIN BareRequest

\* request objects for the request bodies: nothing optional supplied,
\* everything supplied, exactly one property supplied, exactly one absent,
\* and the object handleGenerate builds (no guidance_scale)
WireRequests ==
  { BareRequest, FullRequest }
  \cup { [k \in RequestKeys |->
            IF k = f THEN FullRequest[k] ELSE BareRequest[k]] :
          f \in RequestKeys }
  \cup { [k \in RequestKeys |->
            IF k = f THEN BareRequest[k] ELSE FullRequest[k]] :
          f \in RequestKeys }
  \cup { [BareRequest EXCEPT !.width = 512, !.height = 512,
                            !.num_inference_steps = 6, !.seed = s,
                            !.model_name = "sdxl-turbo", !.sampler = "lcm"] :
          s \in {UndefNum, 42} }

dataLine(id) == <<"data: ", "{", id, "}", "\n">>
nonEventLine == <<"not-an-event", "\n">>
badJsonLine == <<"data: ", "{", "bad json", "}", "\n">>
emptyDataLine == <<"data: ", " ", "\n">>
blankLine == <<"\n">>
unterminatedLine == <<"data: ", "{", "C1", "}">>
headFragment == <<"data: ", "{">>
tailFragment == <<"C1", "}", "\n">>
accentHead == <<"data: ", "{", "Ps", "c3">>
accentTail == <<"a9", "}", "\n">>

\* the line sequence of the malformed-line scenario
ScenarioChunk ==
  nonEventLine \o dataLine("P50") \o badJsonLine \o dataLine("C1")

\* the values reader.read() yields when whole event lines arrive one by one
Chunks == { dataLine("P50"), dataLine("C1"), dataLine("E1") }

\* progress 0, 50, 100, then complete with image_url "/images/x.png"
CatScenarioChunk ==
  dataLine("P0") \o dataLine("P50") \o dataLine("P100") \o dataLine("C1")

\* the events the modelled server also sends as a chunk of their own
SentAlone == {"P50", "C1", "C2", "E1", "ping"}

\* the values reader.read() yields when every chunk is made of whole lines
\* and the events carry ordinary, extreme or missing fields
EventChunks ==
  { dataLine(id) : id \in {"P50", "P150", "C1", "E1", "Px", "Cx", "Ex"} }
  \cup { CatScenarioChunk }

\* the values reader.read() yields when the framing is arbitrary
StreamChunks ==
  { dataLine(id) : id \in SentAlone }
  \cup { nonEventLine, badJsonLine, emptyDataLine, blankLine,
         unterminatedLine,
         headFragment, tailFragment, accentHead, accentTail, ScenarioChunk,
         dataLine("C1") \o dataLine("P50"),
         dataLine("E1") \o dataLine("C1") }

\* ------------------------------------------------------ the state machine
VARIABLES
  state,           \* the StreamingState held by useState
  eventSourceRef,  \* useRef<EventSource | null>(null)
  call,            \* per invocation of a generate function: its position
  history,         \* "fresh": nothing called yet; "solo": exactly one
                   \* generate call, with a non-empty prompt, and no other
                   \* call of the hook; "mixed": anything else
  cancelPending,   \* cancelGeneration hit a running generation, and neither
                   \* a generate function nor resetState was called since
  last             \* the operation that produced the current state: its
                   \* name, the chunk it read, whether isGenerating was true
                   \* and whether a result was set before it, and the JSON
                   \* body of the fetch it issued

VARIABLES
  page,            \* the Index page: its streaming toggle, legacyGenerating,
                   \* generatedImage and the position of its legacy request
  auth             \* the AuthProvider: its four useState values, the
                   \* position of checkAuthStatus, login and logout, and what
                   \* the backend has answered so far

vars ==
  <<state, eventSourceRef, call, history, cancelPending, last, page, auth>>

\* One invocation.  pc: "idle" (no invocation in this slot) | "fetch"
\* (awaiting fetch) | "read" (awaiting reader.read()).  buffer and pending
\* are the locals `buffer` and the decoder's held bytes; requests counts the
\* fetches it issued; term records that it applied a complete/error event;
\* rest records the bytes its stream delivered after the last newline.
IdleCall ==
  [pc |-> "idle", kind |-> "t2i", buffer |-> <<>>, pending |-> <<>>,
   requests |-> 0, term |-> FALSE, rest |-> <<>>]

\* the bytes after the last newline of a byte sequence
RECURSIVE afterLastNewline(_)
afterLastNewline(bytes) ==
  IF \A i \in 1..Len(bytes) : bytes[i] # "\n" THEN bytes
  ELSE afterLastNewline(Tail(bytes))

InFlight(c) == call[c].pc \in {"fetch", "read"}

\* the Index page after its first render: useStreaming, legacyGenerating
\* and generatedImage as their useState calls give them; legacy is the
\* position of the non-streaming request ("idle" | "request")
InitialPage ==
  [useStreaming |-> TRUE, legacyGenerating |-> FALSE,
   generatedImage |-> NullStr, legacy |-> "idle"]

\* the AuthProvider before it is mounted.  check is the position of
\* checkAuthStatus ("unmounted" | "config" | "status" | "done"), env the
\* authEnabled value its closure holds, login and logout the positions of
\* these functions ("idle" | "fetch"); reported records that auth-config
\* answered auth_enabled = true, session that the backend answered OK to
\* auth-status or login and no logout completed since; op and outcome name
\* the last step of the provider and pre is isAuthenticated before it.
InitialAuth ==
  [isAuthenticated |-> FALSE, authEnabled |-> FALSE, loading |-> TRUE,
   error |-> NullStr, check |-> "unmounted", env |-> FALSE,
   login |-> "idle", logout |-> "idle", reported |-> FALSE,
   session |-> FALSE, op |-> "init", outcome |-> "", pre |-> FALSE]

NoOp ==
  [op |-> "init", value |-> <<>>, preGen |-> FALSE, preResult |-> FALSE,
   body |-> <<>>]

Op(name) == [NoOp EXCEPT !.op = name]

Init ==
  /\ state = InitialState
  /\ eventSourceRef = "null"
  /\ call = [c \in Calls |-> IdleCall]
  /\ history = "fresh"
  /\ cancelPending = FALSE
  /\ last = NoOp
  /\ page = InitialPage
  /\ auth = InitialAuth

\* a generate function up to its first await: setState, the (never taken)
\* eventSourceRef close, the request body and the fetch call
Start(c, kind, request) ==
  /\ call[c].pc = "idle"
  /\ \A d \in Calls : d < c => call[d].pc # "idle"
  /\ state' = IF kind = "t2i" THEN generateImageStream_start(request)
              ELSE generateImageToImageStream_start(request)
  /\ call' = [call EXCEPT ![c] =
                 [IdleCall EXCEPT !.pc = "fetch", !.kind = kind,
                                  !.requests = 1]]
  /\ history' = IF history = "fresh" /\ trim(request.prompt) # <<>>
                THEN "solo" ELSE "mixed"
  /\ cancelPending' = FALSE
  /\ last' = [Op(kind) EXCEPT !.preResult = (state.result # NoResult),
                              !.body =
                IF kind = "t2i"
                THEN << generateImageStream_requestBody(request) >>
                ELSE << generateImageToImageStream_requestBody(request) >>]
  /\ UNCHANGED <<eventSourceRef, page, auth>>

generateImageStream(c, request) == Start(c, "t2i", request)

generateImageToImageStream(c, request) == Start(c, "i2i", request)

\* control reaches the catch block with the thrown value; the function
\* returns after its setState
Catch(c, thrown, name) ==
  /\ state' = catchUpdate(state, CatchMessage(call[c].kind, thrown))
  /\ call' = [call EXCEPT ![c] = IdleCall]
  /\ last' = Op(name)
  /\ UNCHANGED <<eventSourceRef, history, cancelPending, page, auth>>

\* fetch rejects (connection failure)
fetchRejects(c, thrown) ==
  /\ call[c].pc = "fetch"
  /\ Catch(c, thrown, "fetchRejects")

\* fetch resolves with !response.ok
fetchNotOk(c) ==
  /\ call[c].pc = "fetch"
  /\ Catch(c, HttpError, "fetchNotOk")

\* fetch resolves with response.ok and no body
fetchNoBody(c) ==
  /\ call[c].pc = "fetch"
  /\ Catch(c, IF call[c].kind = "t2i" THEN NoReaderT2I ELSE NoReaderI2I,
           "fetchNoBody")

\* fetch resolves with response.ok and a body: reader and decoder are made
fetchOk(c) ==
  /\ call[c].pc = "fetch"
  /\ call' = [call EXCEPT ![c].pc = "read"]
  /\ last' = Op("fetchOk")
  /\ UNCHANGED <<state, eventSourceRef, history, cancelPending, page, auth>>

\* what one iteration of the read loop of invocation c does with value
Chunk(c, value) ==
  IF call[c].kind = "t2i"
  THEN generateImageStream_chunk(state, call[c].term, value)
  ELSE generateImageToImageStream_chunk(state, call[c].term,
           call[c].buffer, call[c].pending, value)

\* reader.read() resolves with {done: false, value}
readChunk(c, value) ==
  /\ call[c].pc = "read"
  /\ last' = [Op("readChunk") EXCEPT !.value = value,
                                     !.preGen = state.isGenerating]
  /\ LET r == Chunk(c, value)
     IN  /\ Len(r.buffer) + Len(r.pending) <= MaxBuffer
         /\ Len(afterLastNewline(call[c].rest \o value)) <= MaxBuffer
         /\ state' = r.acc.st
         /\ call' = [call EXCEPT ![c] =
                IF r.acc.stop = "return" THEN IdleCall
                ELSE [call[c] EXCEPT !.buffer = r.buffer,
                                     !.pending = r.pending,
                                     !.term = r.acc.term,
                                     !.rest = afterLastNewline(
                                                call[c].rest \o value)]]
  /\ UNCHANGED <<eventSourceRef, history, cancelPending, page, auth>>

\* reader.read() resolves with {done: true}: break, fall out of the try
readDone(c) ==
  /\ call[c].pc = "read"
  /\ call' = [call EXCEPT ![c] = IdleCall]
  /\ last' = Op("readDone")
  /\ UNCHANGED <<state, eventSourceRef, history, cancelPending, page, auth>>

\* reader.read() rejects
readRejects(c, thrown) ==
  /\ call[c].pc = "read"
  /\ Catch(c, thrown, "readRejects")

cancelGeneration ==
  /\ eventSourceRef' = "null"
  /\ state' = cancelUpdate(state)
  /\ history' = "mixed"
  /\ cancelPending' =
       (cancelPending \/ (state.isGenerating /\ \E c \in Calls : InFlight(c)))
  /\ last' = [Op("cancelGeneration") EXCEPT !.preGen = state.isGenerating]
  /\ UNCHANGED <<call, page, auth>>

\* resetState keeping the error message
resetState_keepsError ==
  /\ state' = [InitialState EXCEPT !.error = state.error]
  /\ history' = "mixed"
  /\ cancelPending' = FALSE
  /\ last' = [Op("resetState") EXCEPT !.preGen = state.isGenerating]
  /\ UNCHANGED <<eventSourceRef, call, page, auth>>

resetState ==
  /\ state' = InitialState
  /\ history' = "mixed"
  /\ cancelPending' = FALSE
  /\ last' = [Op("resetState") EXCEPT !.preGen = state.isGenerating]
  /\ UNCHANGED <<eventSourceRef, call, page, auth>>

\* ------------------------------------------------------ the Index page
\* isGenerating as the page computes it
pageIsGenerating ==
  IF page.useStreaming THEN state.isGenerating ELSE page.legacyGenerating

\* requestParams of handleGenerate, the parameter controls left at their
\* initial values: negativePrompt and seed empty (so undefined), steps 6,
\* width and height 512, sampler "lcm"
requestParams(prompt) ==
  [BareRequest EXCEPT !.prompt = trim(prompt), !.width = 512, !.height = 512,
                      !.num_inference_steps = 6,
                      !.model_name = "sdxl-turbo", !.sampler = "lcm"]

\* the JSON body of ImageGenerationAPI.generateImage
generateImage_requestBody(request) ==
  [prompt |-> request.prompt,
   negative_prompt |-> OrStr(request.negative_prompt, NullStr),
   width |-> OrNum(request.width, 512),
   height |-> OrNum(request.height, 512),
   num_inference_steps |-> OrNum(request.num_inference_steps, 6),
   guidance_scale |-> OrNum(request.guidance_scale, 10),
   model_name |-> OrStr(request.model_name, "sdxl-turbo"),
   sampler |-> OrStr(request.sampler, "lcm")]

\* a click on Generate with streaming on: the button is enabled, the prompt
\* passes the guard, the previous image is cleared, resetState runs and
\* generateImageStream runs up to its fetch
handleGenerate_streaming(c, prompt) ==
  /\ page.useStreaming
  /\ ~pageIsGenerating
  /\ trim(prompt) # <<>>
  /\ call[c].pc = "idle"
  /\ \A d \in Calls : d < c => call[d].pc # "idle"
  /\ state' = generateImageStream_start(requestParams(prompt))
  /\ call' = [call EXCEPT ![c] =
                 [IdleCall EXCEPT !.pc = "fetch", !.kind = "t2i",
                                  !.requests = 1]]
  /\ history' = "mixed"
  /\ cancelPending' = FALSE
  /\ last' = [Op("handleGenerate") EXCEPT !.body =
                << generateImageStream_requestBody(requestParams(prompt)) >>]
  /\ page' = [page EXCEPT !.generatedImage = NullStr]
  /\ UNCHANGED <<eventSourceRef, auth>>

\* a click on Generate with streaming off: the same up to resetState, then
\* setLegacyGenerating(true) and imageAPI.generateImage up to its fetch
handleGenerate_legacy(prompt) ==
  /\ ~page.useStreaming
  /\ ~pageIsGenerating
  /\ trim(prompt) # <<>>
  /\ state' = InitialState
  /\ history' = "mixed"
  /\ cancelPending' = FALSE
  /\ last' = [Op("handleGenerate") EXCEPT !.body =
                << generateImage_requestBody(requestParams(prompt)) >>]
  /\ page' = [page EXCEPT !.generatedImage = NullStr,
                          !.legacyGenerating = TRUE, !.legacy = "request"]
  /\ UNCHANGED <<eventSourceRef, call, auth>>

\* how the legacy request can end: fetch or response.json() throws, the
\* status is not ok, success is false, success is true without image_url,
\* success is true with image_url
LegacyOutcomes == {"throws", "not ok", "no success", "no image_url", "image"}

\* without the finally block: legacyGenerating is cleared on success only
handleGenerate_settled_nofinally(outcome) ==
  /\ page.legacy = "request"
  /\ page' = [page EXCEPT
       !.legacy = "idle",
       !.legacyGenerating = IF outcome = "image" THEN FALSE ELSE @,
       !.generatedImage = IF outcome = "image" THEN "/images/x.png" ELSE @]
  /\ last' = [Op("handleGenerate_settled") EXCEPT !.value = <<outcome>>]
  /\ UNCHANGED <<state, eventSourceRef, call, history, cancelPending, auth>>

\* the rest of handleGenerate on the legacy path once generateImage settles:
\* setGeneratedImage on success with an image_url, otherwise the catch
\* block (a toast), and setLegacyGenerating(false) in the finally block
handleGenerate_settled(outcome) ==
  /\ page.legacy = "request"
  /\ page' = [page EXCEPT
       !.legacy = "idle",
       !.legacyGenerating = FALSE,
       !.generatedImage = IF outcome = "image" THEN "/images/x.png" ELSE @]
  /\ last' = [Op("handleGenerate_settled") EXCEPT !.value = <<outcome>>]
  /\ UNCHANGED <<state, eventSourceRef, call, history, cancelPending, auth>>

\* a click on Cancel: the button is rendered while isGenerating with
\* streaming on, and the handler calls cancelGeneration under the same test
handleCancel ==
  /\ page.useStreaming
  /\ state.isGenerating
  /\ cancelGeneration

\* the streaming checkbox, disabled while isGenerating
setUseStreaming ==
  /\ ~pageIsGenerating
  /\ page' = [page EXCEPT !.useStreaming = ~page.useStreaming]
  /\ last' = Op("setUseStreaming")
  /\ UNCHANGED <<state, eventSourceRef, call, history, cancelPending, auth>>

\* ------------------------------------------------------ the AuthProvider
\* the last step of the provider, recorded in auth
AuthOp(a, name, outcome) ==
  [a EXCEPT !.op = name, !.outcome = outcome, !.pre = auth.isAuthenticated]

HookAndPage ==
  <<state, eventSourceRef, call, history, cancelPending, last, page>>

\* the provider is mounted with VITE_AUTH_ENABLED read as env: the useState
\* calls, and the mount effect running checkAuthStatus up to its first fetch
AuthProvider(env) ==
  /\ auth.check = "unmounted"
  /\ auth' = AuthOp([auth EXCEPT !.authEnabled = env, !.env = env,
                                 !.loading = TRUE, !.check = "config"],
                    "AuthProvider", "")
  /\ UNCHANGED HookAndPage

\* the catch and finally blocks of checkAuthStatus; authEnabled there is the
\* value of the render that created the function, the mount render
checkAuthStatus_catch(a) ==
  [a EXCEPT !.isAuthenticated = ~a.env,
            !.error = "Failed to check authentication status",
            !.loading = FALSE, !.check = "done"]

ConfigOutcomes == {"throws", "not ok", "enabled", "disabled"}

\* checkAuthStatus whose early return skips the finally block
checkAuthStatus_config_nofinally(outcome) ==
  /\ auth.check = "config"
  /\ auth' = AuthOp(
       CASE outcome = "throws" -> checkAuthStatus_catch(auth)
         [] outcome = "not ok" -> [auth EXCEPT !.check = "status"]
         [] outcome = "enabled" ->
              [auth EXCEPT !.authEnabled = TRUE, !.reported = TRUE,
                           !.check = "status"]
         [] outcome = "disabled" ->
              [auth EXCEPT !.authEnabled = FALSE, !.isAuthenticated = TRUE,
                           !.check = "done"],
       "checkAuthStatus_config", outcome)
  /\ UNCHANGED HookAndPage

\* checkAuthStatus from the auth-config fetch to the auth-status fetch or
\* to its return: the fetch or json() throws, the status is not ok, or the
\* config says auth_enabled true or false
checkAuthStatus_config(outcome) ==
  /\ auth.check = "config"
  /\ auth' = AuthOp(
       CASE outcome = "throws" -> checkAuthStatus_catch(auth)
         [] outcome = "not ok" -> [auth EXCEPT !.check = "status"]
         [] outcome = "enabled" ->
              [auth EXCEPT !.authEnabled = TRUE, !.reported = TRUE,
                           !.check = "status"]
         [] outcome = "disabled" ->
              [auth EXCEPT !.authEnabled = FALSE, !.isAuthenticated = TRUE,
                           !.loading = FALSE, !.check = "done"],
       "checkAuthStatus_config", outcome)
  /\ UNCHANGED HookAndPage

FetchOutcomes == {"ok", "not ok", "throws"}

\* checkAuthStatus from the auth-status fetch to its return
checkAuthStatus_status(outcome) ==
  /\ auth.check = "status"
  /\ auth' = AuthOp(
       CASE outcome = "ok" ->
              [auth EXCEPT !.isAuthenticated = TRUE, !.error = NullStr,
                           !.session = TRUE,
                           !.loading = FALSE, !.check = "done"]
         [] outcome = "not ok" ->
              [auth EXCEPT !.isAuthenticated = FALSE,
                           !.loading = FALSE, !.check = "done"]
         [] outcome = "throws" -> checkAuthStatus_catch(auth),
       "checkAuthStatus_status", outcome)
  /\ UNCHANGED HookAndPage

\* login up to its fetch
login ==
  /\ auth.check # "unmounted"
  /\ auth.login = "idle"
  /\ auth' = AuthOp([auth EXCEPT !.error = NullStr, !.login = "fetch"],
                    "login", "")
  /\ UNCHANGED HookAndPage

\* login from its fetch to its return; a body without detail, or one whose
\* json() throws, gives the two fallback messages
login_settled(outcome) ==
  /\ auth.login = "fetch"
  /\ auth' = AuthOp(
       CASE outcome = "ok" ->
              [auth EXCEPT !.isAuthenticated = TRUE, !.session = TRUE,
                           !.login = "idle"]
         [] outcome = "not ok" ->
              [auth EXCEPT !.error = "Login failed", !.login = "idle"]
         [] outcome = "throws" ->
              [auth EXCEPT !.error = "Network error during login",
                           !.login = "idle"],
       "login_settled", outcome)
  /\ UNCHANGED HookAndPage

\* logout up to its fetch
logout ==
  /\ auth.check # "unmounted"
  /\ auth.logout = "idle"
  /\ auth' = AuthOp([auth EXCEPT !.logout = "fetch"], "logout", "")
  /\ UNCHANGED HookAndPage

\* logout clearing isAuthenticated only when the request succeeded
logout_settled_onsuccess(outcome) ==
  /\ auth.logout = "fetch"
  /\ auth' = AuthOp(
       [auth EXCEPT !.isAuthenticated = IF outcome = "ok" THEN FALSE ELSE @,
                    !.session = FALSE, !.logout = "idle"],
       "logout_settled", outcome)
  /\ UNCHANGED HookAndPage

\* logout from its fetch to its return: the finally block
logout_settled(outcome) ==
  /\ auth.logout = "fetch"
  /\ auth' = AuthOp(
       [auth EXCEPT !.isAuthenticated = FALSE, !.session = FALSE,
                    !.logout = "idle"],
       "logout_settled", outcome)
  /\ UNCHANGED HookAndPage

\* what AuthGuard renders
AuthGuard(a) ==
  IF a.loading THEN "loading"
  ELSE IF ~a.authEnabled \/ a.isAuthenticated THEN "children"
  ELSE "LoginForm"

\* the server's and the network's part, with the chunks drawn from S
Env(S) ==
  \/ \E c \in Calls, thrown \in NetworkErrors : fetchRejects(c, thrown)
  \/ \E c \in Calls : fetchNotOk(c)
  \/ \E c \in Calls : fetchNoBody(c)
  \/ \E c \in Calls : fetchOk(c)
  \/ \E c \in Calls, value \in S : readChunk(c, value)
  \/ \E c \in Calls : readDone(c)
  \/ \E c \in Calls, thrown \in NetworkErrors : readRejects(c, thrown)

\* the hook called freely: generate calls may overlap
Next ==
  \/ \E c \in Calls, request \in Requests : generateImageStream(c, request)
  \/ \E c \in Calls, request \in Requests :
        generateImageToImageStream(c, request)
  \/ cancelGeneration
  \/ resetState
  \/ Env(Chunks)

Spec == Init /\ [][Next]_vars

\* the hook called by a caller that awaits each generate call before the
\* next one, the server framing its stream arbitrarily
NoneInFlight == \A c \in Calls : ~InFlight(c)

StreamNext ==
  \/ \E c \in Calls, request \in Requests :
        NoneInFlight /\ generateImageStream(c, request)
  \/ \E c \in Calls, request \in Requests :
        NoneInFlight /\ generateImageToImageStream(c, request)
  \/ cancelGeneration
  \/ resetState
  \/ Env(StreamChunks)

StreamSpec == Init /\ [][StreamNext]_vars

\* the same caller, the server sending whole lines whose events carry
\* ordinary, extreme or missing fields
EventNext ==
  \/ \E c \in Calls, request \in Requests :
        NoneInFlight /\ generateImageStream(c, request)
  \/ \E c \in Calls, request \in Requests :
        NoneInFlight /\ generateImageToImageStream(c, request)
  \/ cancelGeneration
  \/ resetState
  \/ Env(EventChunks)

EventSpec == Init /\ [][EventNext]_vars

\* the same caller passing request objects of every shape
WireNext ==
  \/ \E c \in Calls, request \in WireRequests :
        NoneInFlight /\ generateImageStream(c, request)
  \/ \E c \in Calls, request \in WireRequests :
        NoneInFlight /\ generateImageToImageStream(c, request)
  \/ cancelGeneration
  \/ resetState
  \/ Env(Chunks)

WireSpec == Init /\ [][WireNext]_vars

\* the hook driven through the controls of the Index page only
PageNext ==
  \/ \E c \in Calls, prompt \in Prompts : handleGenerate_streaming(c, prompt)
  \/ \E prompt \in Prompts : handleGenerate_legacy(prompt)
  \/ \E outcome \in LegacyOutcomes : handleGenerate_settled(outcome)
  \/ handleCancel
  \/ setUseStreaming
  \/ Env(Chunks)

PageSpec == Init /\ [][PageNext]_vars

\* the AuthProvider with its backend
AuthNext ==
  \/ \E env \in BOOLEAN : AuthProvider(env)
  \/ \E outcome \in ConfigOutcomes : checkAuthStatus_config(outcome)
  \/ \E outcome \in FetchOutcomes : checkAuthStatus_status(outcome)
  \/ login
  \/ \E outcome \in FetchOutcomes : login_settled(outcome)
  \/ logout
  \/ \E outcome \in FetchOutcomes : logout_settled(outcome)

AuthSpec == Init /\ [][AuthNext]_vars

TypeOK ==
  /\ state.isGenerating \in BOOLEAN
  /\ eventSourceRef = "null"
  /\ \A c \in Calls : call[c].pc \in {"idle", "fetch", "read"}

\* ------------------------------------------------------ properties
ResultSet(st) == st.result # NoResult
ErrorSet(st) == st.error # UndefStr

\* the Errored shape: not generating, a non-empty message, no result
Errored(st) ==
  ~st.isGenerating /\ st.error \notin {UndefStr, ""} /\ st.result = NoResult

\* C1: once the only generate call made (non-empty prompt, no cancel, no
\* reset, no second call) has returned, the state is terminal: isGenerating
\* is false and exactly one of result and error is set.
C1_ReturnsTerminal ==
  (history = "solo" /\ NoneInFlight)
    => (~state.isGenerating /\ (ResultSet(state) # ErrorSet(state)))

\* C2: result and error are never both set, and both are unset while
\* isGenerating is true.
C2_ResultErrorExclusive ==
  /\ ~(ResultSet(state) /\ ErrorSet(state))
  /\ state.isGenerating => (~ResultSet(state) /\ ~ErrorSet(state))

\* C3: an event applied after a complete or error event of the same stream,
\* in the same chunk or in a later one, changes no StreamingState field.
C3_TerminalIsFinal ==
  [][\A c \in Calls, value \in StreamChunks :
       readChunk(c, value) => ~Chunk(c, value).acc.late]_vars

\* C4: after cancelGeneration hit a running generation, no chunk delivered
\* on a stream changes the StreamingState until the next generate or reset.
C4_CancelFreezes ==
  [][\A c \in Calls, value \in Chunks :
       (cancelPending /\ readChunk(c, value)) => state' = state]_vars

\* C5: cancelGeneration while isGenerating is true sets, in one step,
\* isGenerating to false and error to "Generation cancelled" and leaves
\* progress, stage, currentStep, totalSteps and result as they were.
C5_CancelWhileGenerating ==
  [][(cancelGeneration /\ state.isGenerating) =>
       /\ state'.isGenerating = FALSE
       /\ state'.error = "Generation cancelled"
       /\ state'.progress = state.progress
       /\ state'.stage = state.stage
       /\ state'.currentStep = state.currentStep
       /\ state'.totalSteps = state.totalSteps
       /\ state'.result = state.result]_vars

\* C5 witness: a generation that had reached progress 50 was cancelled
C5_Witness ==
  /\ last.op = "cancelGeneration" /\ last.preGen
  /\ state.progress = 50 /\ state.stage = "Generating"
  /\ state.error = "Generation cancelled" /\ ~state.isGenerating

\* C6: cancelGeneration with no generation in flight (isGenerating false)
\* changes no StreamingState field.
C6_CancelIdleNoOp ==
  [][(cancelGeneration /\ ~state.isGenerating /\ NoneInFlight)
       => state' = state]_vars

\* C7: when the stream of the only generate call ends (read returns done)
\* before a complete or error event was applied, the state is Errored.
C7_StreamEndIsError ==
  [][\A c \in Calls :
       (history = "solo" /\ ~call[c].term /\ readDone(c))
         => Errored(state')]_vars

\* C8: a generate call whose prompt is empty after trimming issues no
\* request and does not start a session.
C8_BlankPromptNotStarted ==
  [][\A c \in Calls, request \in Requests :
       (trim(request.prompt) = <<>>
        /\ (generateImageStream(c, request)
            \/ generateImageToImageStream(c, request)))
         => (call'[c].requests = 0 /\ state' = state)]_vars

\* C9: when fetch rejects, the status is not ok, the body is missing or a
\* read rejects, the only generate call returns with the state Errored and
\* has issued exactly one request.
C9_TransportFailureIsError ==
  [][\A c \in Calls :
       (history = "solo"
        /\ (\/ fetchNotOk(c)
            \/ fetchNoBody(c)
            \/ \E thrown \in NetworkErrors :
                  fetchRejects(c, thrown) \/ readRejects(c, thrown)))
         => (Errored(state') /\ call[c].requests = 1
             /\ call'[c].pc = "idle")]_vars

\* the lines the read loop of invocation c iterates over for value
LinesOf(c, value) ==
  IF call[c].kind = "t2i" THEN split(decode(<<>>, value, FALSE).text)
  ELSE LET all == split(call[c].buffer
                        \o decode(call[c].pending, value, TRUE).text)
       IN  SubSeq(all, 1, Len(all) - 1)

\* a `data: ` line whose payload JSON.parse rejects
IsBadJson(kind, line) ==
  /\ startsWithData(line)
  /\ ~JSONparse(Tail(line)).ok
  /\ kind = "i2i" => ~trimIsEmpty(Tail(line))

RECURSIVE WithoutBadJson(_, _)
WithoutBadJson(kind, lines) ==
  IF lines = <<>> THEN <<>>
  ELSE IF IsBadJson(kind, Head(lines)) THEN WithoutBadJson(kind, Tail(lines))
  ELSE <<Head(lines)>> \o WithoutBadJson(kind, Tail(lines))

\* C10: a `data: ` line whose payload is not valid JSON changes nothing and
\* the lines after it are applied as if it were absent; the four-line
\* scenario yields one progress update, then Completed, and no error.
C10_BadJsonSkipped ==
  [][\A c \in Calls, value \in StreamChunks :
       readChunk(c, value) =>
         LET lines == LinesOf(c, value)
             start == LoopStart(state, call[c].term)
             all == forLines(call[c].kind, lines, 1, start)
             good == forLines(call[c].kind,
                              WithoutBadJson(call[c].kind, lines), 1, start)
         IN  /\ state' = good.st
             /\ all.applied = good.applied
             /\ all.stop = good.stop
             /\ (history = "solo" /\ value = ScenarioChunk
                 /\ call[c].buffer = <<>> /\ state.isGenerating)
                  => /\ all.applied = <<"progress", "complete">>
                     /\ all.bad = 1
                     /\ ~state'.isGenerating /\ state'.progress = 100
                     /\ state'.error = UndefStr
                     /\ ResultSet(state')
                     /\ state'.result[1].image_url = "/images/x.png"]_vars

\* C10 witness: the scenario chunk was read by the only generate call and
\* left the state Completed
C10_Witness ==
  /\ last.op = "readChunk" /\ last.value = ScenarioChunk
  /\ history = "solo"
  /\ ~state.isGenerating /\ state.stage = "Completed"
  /\ ResultSet(state) /\ ~ErrorSet(state)

\* the complete lines of the text the stream of invocation c has delivered
\* since its last newline, value included
WholeLines(c, value) ==
  LET all == split(decode(<<>>, call[c].rest \o value, TRUE).text)
  IN  SubSeq(all, 1, Len(all) - 1)

\* C11: the events a chunk makes the loop apply, and the state they leave,
\* are those of the complete lines of the concatenated text, wherever the
\* chunk boundaries fell: a `data: ` line split across chunks is applied
\* once, when its newline arrives, in both functions.
C11_ChunkBoundariesIrrelevant ==
  [][\A c \in Calls, value \in StreamChunks :
       readChunk(c, value) =>
         LET whole == forLines(call[c].kind, WholeLines(c, value), 1,
                               LoopStart(state, call[c].term))
         IN  /\ Chunk(c, value).acc.applied = whole.applied
             /\ state' = whole.st]_vars

\* C12: a progress event read while isGenerating is true sets progress,
\* stage, currentStep and totalSteps to the event's own values, 150, zero
\* and the empty stage included, and keeps isGenerating, error and result,
\* in both functions.
C12_ProgressVerbatim ==
  [][\A c \in Calls, id \in {"P50", "P150"} :
       (state.isGenerating /\ call[c].buffer = <<>> /\ call[c].rest = <<>>
        /\ readChunk(c, dataLine(id)))
         => /\ state'.progress = JSONValue(id).progress
            /\ state'.stage = JSONValue(id).stage
            /\ state'.currentStep = JSONValue(id).step
            /\ state'.totalSteps = JSONValue(id).total_steps
            /\ state'.isGenerating = state.isGenerating
            /\ state'.error = state.error
            /\ state'.result = state.result]_vars

\* the result a complete event with image_url "/images/x.png" stores
ResultX ==
  << [image_url |-> "/images/x.png", filename |-> "x.png",
      generation_time |-> 32] >>

\* C13: a complete event read while isGenerating is true sets isGenerating
\* to false, progress to 100, stage to "Completed" and result to the event's
\* image_url, filename and generation_time, and leaves error unset; so does
\* the stream of progress 0, 50, 100 and then complete "/images/x.png".
C13_CompleteApplied ==
  [][\A c \in Calls, value \in {dataLine("C1"), CatScenarioChunk} :
       (state.isGenerating /\ readChunk(c, value))
         => /\ state'.isGenerating = FALSE
            /\ state'.progress = 100
            /\ state'.stage = "Completed"
            /\ state'.result = ResultX
            /\ state'.error = UndefStr]_vars

\* C13 witness: the stream of three progress events and a complete event was
\* read by a running generation and left it Completed with the image
C13_Witness ==
  /\ last.op = "readChunk" /\ last.value = CatScenarioChunk /\ last.preGen
  /\ ~state.isGenerating /\ state.progress = 100
  /\ state.result = ResultX /\ state.error = UndefStr

\* the defaults of the hook, field by field
Defaults ==
  [isGenerating |-> FALSE, progress |-> 0, stage |-> "", currentStep |-> 0,
   totalSteps |-> 0, result |-> NoResult, error |-> UndefStr]

\* C14: resetState from any state yields exactly the defaults, and a second
\* resetState right after the first leaves the state as the first left it.
C14_ResetYieldsDefaults ==
  [][resetState =>
       /\ state' = Defaults
       /\ last.op = "resetState" => state' = state]_vars

\* C14 witness: resetState was called while a generation was running and its
\* stream was being read, and the state is the defaults
C14_Witness ==
  /\ last.op = "resetState" /\ last.preGen
  /\ \E c \in Calls : call[c].pc = "read"
  /\ state = Defaults

\* the wire body the request round trip expects: every property of the
\* request as supplied, the default where it is absent
ExpectedBody(request) ==
  [prompt |-> request.prompt,
   negative_prompt |-> IF request.negative_prompt = UndefStr THEN NullStr
                       ELSE request.negative_prompt,
   width |-> IF request.width = UndefNum THEN 512 ELSE request.width,
   height |-> IF request.height = UndefNum THEN 512 ELSE request.height,
   num_inference_steps |-> IF request.num_inference_steps = UndefNum THEN 6
                           ELSE request.num_inference_steps,
   guidance_scale |-> IF request.guidance_scale = UndefNum THEN 10
                      ELSE request.guidance_scale,
   seed |-> IF request.seed = UndefNum THEN NullNum ELSE request.seed,
   model_name |-> IF request.model_name = UndefStr THEN "sdxl-turbo"
                  ELSE request.model_name,
   sampler |-> IF request.sampler = UndefStr THEN "lcm"
               ELSE request.sampler]

\* C15: the body generateImageStream sends carries every property of the
\* request as supplied (prompt, negative_prompt, width, height,
\* num_inference_steps, guidance_scale, seed, model_name, sampler) and the
\* default exactly where the property is absent (512, 512, 6, 1.0,
\* "sdxl-turbo", "lcm", null for negative_prompt and seed).
C15_WireBodyCarriesRequest ==
  [][\A c \in Calls, request \in WireRequests :
       generateImageStream(c, request)
         => last'.body = << ExpectedBody(request) >>]_vars

\* C16: after cancelGeneration hit a running generation, the next read of
\* its stream ends the read loop (the stream was closed) and the ending is
\* a cancellation: the state is unchanged and error stays
\* "Generation cancelled".
C16_CancelStopsReadLoop ==
  [][\A c \in Calls, value \in Chunks :
       (cancelPending /\ readChunk(c, value))
         => /\ call'[c].pc = "idle"
            /\ state'.error = "Generation cancelled"
            /\ ~state'.isGenerating]_vars

\* C17: at most one invocation is reading its stream, and so writing the
\* StreamingState, at any time: a generate call made while an earlier one is
\* active rejects itself or ends the earlier one.
C17_SingleReadLoop ==
  Cardinality({c \in Calls : call[c].pc = "read"}) <= 1

\* C18: after resetState was called while a stream was being read, the
\* state stays at the defaults: the next chunk of that stream changes no
\* field.
C18_ResetEndsStream ==
  [][\A c \in Calls, value \in Chunks :
       (last.op = "resetState" /\ readChunk(c, value))
         => state' = InitialState]_vars

\* C19: a progress, complete or error event without its fields (progress,
\* stage, step, total_steps; image_url, filename, generation_time; message)
\* is skipped: reading it changes no field and the read loop goes on.
C19_MissingFieldsSkipped ==
  [][\A c \in Calls, id \in {"Px", "Cx", "Ex"} :
       (state.isGenerating /\ readChunk(c, dataLine(id)))
         => /\ state' = state
            /\ call'[c].pc = "read"]_vars

\* C20: an error event read while isGenerating is true sets isGenerating to
\* false and error to the event's message, leaves result unset and keeps
\* progress, stage, currentStep and totalSteps.
C20_ErrorApplied ==
  [][\A c \in Calls :
       (state.isGenerating /\ readChunk(c, dataLine("E1")))
         => /\ state'.isGenerating = FALSE
            /\ state'.error = JSONValue("E1").message
            /\ state'.result = NoResult
            /\ state'.progress = state.progress
            /\ state'.stage = state.stage
            /\ state'.currentStep = state.currentStep
            /\ state'.totalSteps = state.totalSteps]_vars

\* C20 witness: a generation that had reached progress 50 read the error
\* event and is Errored with its message and the progress it had
C20_Witness ==
  /\ last.op = "readChunk" /\ last.value = dataLine("E1") /\ last.preGen
  /\ ~state.isGenerating /\ state.error = "boom" /\ state.result = NoResult
  /\ state.progress = 50 /\ state.stage = "Generating"
  /\ state.currentStep = 3 /\ state.totalSteps = 6

\* C21: a generate call made in any state replaces the StreamingState with
\* isGenerating true, progress 0, currentStep 0, error and result unset and
\* totalSteps the request's num_inference_steps (6 for text-to-image and 20
\* for image-to-image when it is absent); nothing of the previous state is
\* kept.
C21_StartReplacesState ==
  [][\A c \in Calls, request \in Requests :
       /\ generateImageStream(c, request) =>
            state' = [isGenerating |-> TRUE, progress |-> 0,
                      stage |-> "Initializing", currentStep |-> 0,
                      totalSteps |->
                        IF request.num_inference_steps = UndefNum THEN 6
                        ELSE request.num_inference_steps,
                      error |-> UndefStr, result |-> NoResult]
       /\ generateImageToImageStream(c, request) =>
            state' = [isGenerating |-> TRUE, progress |-> 0,
                      stage |-> "Initializing img2img", currentStep |-> 0,
                      totalSteps |->
                        IF request.num_inference_steps = UndefNum THEN 20
                        ELSE request.num_inference_steps,
                      error |-> UndefStr, result |-> NoResult]]_vars

\* C21 witness: a text-to-image generation asking for 4 steps was started
\* from a state that held the result of an earlier one
C21_Witness ==
  /\ last.op = "t2i" /\ last.preResult
  /\ state.isGenerating /\ state.progress = 0 /\ state.totalSteps = 4
  /\ state.result = NoResult /\ state.error = UndefStr

\* the lines the read loops pass over: no `data: ` prefix, a blank line, an
\* empty payload, an event of a type other than progress, complete, error
IgnoredLines == {nonEventLine, blankLine, emptyDataLine, dataLine("ping")}

\* C22: a line without the `data: ` prefix, a `data: ` line with an empty
\* payload and an event whose type is none of progress, complete and error
\* each leave every StreamingState field as it was and leave the read loop
\* running.
C22_IgnoredLines ==
  [][\A c \in Calls, value \in IgnoredLines :
       (call[c].rest = <<>> /\ readChunk(c, value))
         => /\ state' = state
            /\ call'[c].pc = "read"
            /\ Chunk(c, value).acc.applied = <<>>]_vars

\* C22 witness: a running generation read an event of an unknown type and is
\* still running and reading
C22_Witness ==
  /\ last.op = "readChunk" /\ last.value = dataLine("ping") /\ last.preGen
  /\ state.isGenerating /\ state.error = UndefStr
  /\ \E c \in Calls : call[c].pc = "read"

\* C23: in every reachable state a stored result comes with isGenerating
\* false, progress 100 and stage "Completed", whatever the interleaving of
\* stream events, cancelGeneration, resetState and generate calls.
C23_ResultImpliesCompleted ==
  ResultSet(state) =>
    (~state.isGenerating /\ state.progress = 100
     /\ state.stage = "Completed")

\* C24: with the hook driven only through the Index page (Generate enabled
\* while isGenerating is false and the prompt is not blank, Cancel acting
\* while the streaming isGenerating is true), no two invocations are reading
\* a stream at the same time.
C24_PageSingleReadLoop ==
  \A c \in Calls, d \in Calls :
    (call[c].pc = "read" /\ call[d].pc = "read") => c = d

IsEventLine(line) ==
  /\ startsWithData(line)
  /\ JSONparse(Tail(line)).ok
  /\ JSONparse(Tail(line)).value.type \in {"progress", "complete", "error"}

\* C25: when the stream ends, an event line left without its newline in the
\* line buffer is still parsed and applied before the generate function
\* returns.
C25_FinalLineApplied ==
  [][\A c \in Calls :
       (readDone(c) /\ IsEventLine(call[c].buffer))
         => state' = forLines(call[c].kind, <<call[c].buffer>>, 1,
                              LoopStart(state, call[c].term)).st]_vars

\* C27: once auth-config has reported auth_enabled = true, isAuthenticated
\* is true only if an auth-status or login request returned OK (and no
\* logout completed since), a network failure in checkAuthStatus included,
\* and AuthGuard renders its children only then while authEnabled is true.
C27_AuthenticatedOnlyAfterOk ==
  auth.reported =>
    /\ auth.isAuthenticated => auth.session
    /\ (auth.authEnabled /\ AuthGuard(auth) = "children") => auth.session

\* C28: checkAuthStatus has set loading to false whenever it has returned
\* (auth disabled, auth-status OK, auth-status not OK, a thrown error), and
\* AuthGuard no longer renders its loading screen.
C28_LoadingCleared ==
  auth.check = "done" => (~auth.loading /\ AuthGuard(auth) # "loading")

\* C28 witness: checkAuthStatus returned early because auth is disabled and
\* loading is false
C28_Witness ==
  /\ auth.op = "checkAuthStatus_config" /\ auth.outcome = "disabled"
  /\ auth.check = "done" /\ ~auth.loading /\ AuthGuard(auth) = "children"

\* C29: when logout returns, isAuthenticated is false, whether its request
\* succeeded, returned an error status or threw.
C29_LogoutClears ==
  [][\A outcome \in FetchOutcomes :
       logout_settled(outcome)
         => (~auth'.isAuthenticated /\ auth'.logout = "idle")]_vars

\* C29 witness: an authenticated user logged out, the request threw, and
\* isAuthenticated is false
C29_Witness ==
  /\ auth.op = "logout_settled" /\ auth.outcome = "throws" /\ auth.pre
  /\ ~auth.isAuthenticated

====
